---- MODULE Spec2Model ----
(***************************************************************************)
(* Model of linkcheck/checker/__init__.py: the check loop (check_urls,     *)
(* _check_urls), the automatic intern pattern (set_intern_url), the        *)
(* absolute-url search (absolute_url) and the url class dispatch           *)
(* (get_url_from).                                                         *)
(*                                                                         *)
(* Texts are TLA+ strings; Len, SubSeq and \o act on them character by     *)
(* character.  Python's None and the empty text are both false on the      *)
(* lines that test them, and both are written "".                          *)
(***************************************************************************)
EXTENDS Integers, Sequences, FiniteSets, TLC

VARIABLES
    \* ---- the check loop (check_urls / _check_urls) ----
    pc,           \* position in check_urls/_check_urls
    calls,        \* the calls made on the consumer so far, in order
    now,          \* time.time()
    start_time,   \* local of _check_urls
    status_time,  \* local of _check_urls
    curtime,      \* local of _check_urls
    status,       \* consumer.config['status']
    queue,        \* urls the consumer still has to check
    queue0,       \* the consumer's queue when the run began
    exc,          \* the exception that left check_urls, or "none"
    thrown,       \* the first exception raised inside the try block
    \* ---- the url factory (get_url_from / set_intern_url) ----
    internlinks,  \* consumer.config['internlinks'], patterns in order
    externlinks,  \* consumer.config['externlinks'], patterns in order
    internlinks0, \* internlinks as configured before the first call
    externlinks0, \* externlinks as configured before the first call
    last,         \* arguments and result of the latest get_url_from call
    seeds,        \* the command line urls built so far, as [url, klass]
    ncalls        \* number of get_url_from calls made

vars == <<pc, calls, now, start_time, status_time, curtime, status, queue,
          queue0, exc, thrown, internlinks, externlinks, internlinks0,
          externlinks0, last, seeds, ncalls>>

schedVars == <<pc, calls, now, start_time, status_time, curtime, status,
               queue, queue0, exc, thrown>>

factoryVars == <<internlinks, externlinks, internlinks0, externlinks0, last,
                 seeds, ncalls>>

----------------------------------------------------------------------------
\* Bounds of the model.

\* Most urls a consumer holds when the run begins.
MaxQueue == 3

\* Longest time, in seconds, one consumer call takes.
MaxStep == 6

\* Most get_url_from calls in one run of the factory.
MaxCalls == 3

----------------------------------------------------------------------------
\* The check loop.

\* Seconds between two status outputs (the literal 5 of _check_urls).
StatusInterval == 5

KeyboardInterrupt == "KeyboardInterrupt"

\* What a consumer call can raise: the cancellation signal, a member of
\* ExcList that a checker let escape, and an internal error.
Exceptions == {KeyboardInterrupt, "IOError", "TypeError"}

\* at: the position where it was raised; idx: the calls made by then.
NoThrow == [by |-> "none", kind |-> "none", at |-> "none", idx |-> 0]

\* A call on the consumer: its name, its arguments, and the time it is made.
Call(op, args) == [op |-> op, args |-> args, at |-> now]

\* Mutation of Catches: a bare except clause.
CatchesAll(e) == TRUE

\* The except clause of check_urls.
Catches(e) == e = KeyboardInterrupt

\* An exception e raised by `by` inside the try block of check_urls:
\* the handler runs for the exceptions the clause names, any other leaves
\* check_urls.
Raise(by, e) ==
    /\ thrown' = [by |-> by, kind |-> e, at |-> pc, idx |-> Len(calls')]
    /\ IF Catches(e)
         THEN /\ pc' = "abort"
              /\ exc' = "none"
         ELSE /\ pc' = "raised"
              /\ exc' = e

\* Mutation of StatusDue: the interval is not waited for.
StatusDueAlways(cur, lasttime) == (cur - lasttime) >= 0

\* The test that guards print_status.
StatusDue(cur, lasttime) == (cur - lasttime) > StatusInterval

SchedInit ==
    /\ pc = "start"
    /\ calls = <<>>
    /\ now = 0
    /\ start_time = 0
    /\ status_time = 0
    /\ curtime = 0
    /\ status \in BOOLEAN
    /\ queue \in 0..MaxQueue
    /\ queue0 = queue
    /\ exc = "none"
    /\ thrown = NoThrow

\* start_time = time.time(); status_time = start_time
Start ==
    /\ UNCHANGED factoryVars
    /\ pc = "start"
    /\ start_time' = now
    /\ status_time' = now
    /\ pc' = "loop"
    /\ UNCHANGED <<calls, now, curtime, status, queue, queue0, exc, thrown>>

\* while not consumer.finished():
Finished ==
    /\ UNCHANGED factoryVars
    /\ pc = "loop"
    /\ calls' = Append(calls, Call("finished", <<>>))
    /\ \/ /\ pc' = (IF queue = 0 THEN "end" ELSE "check")
          /\ UNCHANGED <<exc, thrown>>
       \/ \E e \in Exceptions : Raise("finished", e)
    /\ UNCHANGED <<now, start_time, status_time, curtime, status, queue,
                   queue0>>

\* consumer.check_url(): one url is checked, which takes some time.
CheckUrl ==
    /\ UNCHANGED factoryVars
    /\ pc = "check"
    /\ calls' = Append(calls, Call("check_url", <<>>))
    /\ \E d \in 0..MaxStep : now' = now + d
    /\ \/ /\ queue' = queue - 1
          /\ pc' = "config"
          /\ UNCHANGED <<exc, thrown>>
       \/ /\ \E e \in Exceptions : Raise("check_url", e)
          /\ UNCHANGED queue
    /\ UNCHANGED <<start_time, status_time, curtime, status, queue0>>

\* if consumer.config['status']: curtime = time.time();
\*     if (curtime - status_time) > 5:
StatusCheck ==
    /\ UNCHANGED factoryVars
    /\ pc = "config"
    /\ IF status
         THEN /\ curtime' = now
              /\ pc' = (IF StatusDue(now, status_time) THEN "print" ELSE "loop")
         ELSE /\ pc' = "loop"
              /\ UNCHANGED curtime
    /\ UNCHANGED <<calls, now, start_time, status_time, status, queue, queue0,
                   exc, thrown>>

\* consumer.print_status(curtime, start_time); status_time = curtime
PrintStatus ==
    /\ UNCHANGED factoryVars
    /\ pc = "print"
    /\ calls' = Append(calls, Call("print_status", <<curtime, start_time>>))
    /\ \E d \in 0..1 : now' = now + d
    /\ \/ /\ status_time' = curtime
          /\ pc' = "loop"
          /\ UNCHANGED <<exc, thrown>>
       \/ /\ \E e \in Exceptions : Raise("print_status", e)
          /\ UNCHANGED status_time
    /\ UNCHANGED <<start_time, curtime, status, queue, queue0>>

\* consumer.logger_end_output(), the last statement of _check_urls
EndOutput ==
    /\ UNCHANGED factoryVars
    /\ pc = "end"
    /\ calls' = Append(calls, Call("logger_end_output", <<>>))
    /\ \/ /\ pc' = "done"
          /\ UNCHANGED <<exc, thrown>>
       \/ \E e \in Exceptions : Raise("logger_end_output", e)
    /\ UNCHANGED <<now, start_time, status_time, curtime, status, queue,
                   queue0>>

\* Ctrl-C between two consumer calls, while _check_urls runs.
Interrupt ==
    /\ UNCHANGED factoryVars
    /\ pc \in {"start", "loop", "check", "config", "print", "end"}
    /\ UNCHANGED <<calls, now, start_time, status_time, curtime, status,
                   queue, queue0>>
    /\ Raise("signal", KeyboardInterrupt)

\* except KeyboardInterrupt: consumer.abort(), after which check_urls
\* returns; what abort raises leaves check_urls.
Abort ==
    /\ UNCHANGED factoryVars
    /\ pc = "abort"
    /\ calls' = Append(calls, Call("abort", <<>>))
    /\ \/ /\ pc' = "done"
          /\ UNCHANGED exc
       \/ /\ \E e \in Exceptions : exc' = e
          /\ pc' = "raised"
    /\ UNCHANGED <<now, start_time, status_time, curtime, status, queue,
                   queue0, thrown>>

Next ==
    \/ Start
    \/ Finished
    \/ CheckUrl
    \/ StatusCheck
    \/ PrintStatus
    \/ EndOutput
    \/ Interrupt
    \/ Abort

FactoryIdle ==
    /\ internlinks = <<>>
    /\ externlinks = <<>>
    /\ internlinks0 = <<>>
    /\ externlinks0 = <<>>
    /\ last = [base_url |-> "", base_ref |-> "", parent_url |-> "",
               cmdline |-> FALSE, url |-> "", klass |-> "none"]
    /\ seeds = {}
    /\ ncalls = 0

Init == SchedInit /\ FactoryIdle

Spec == Init /\ [][Next]_vars

----------------------------------------------------------------------------
\* Texts.

UpperChars == "ABCDEFGHIJKLMNOPQRSTUVWXYZ"

LowerChars == "abcdefghijklmnopqrstuvwxyz"

DigitChars == "0123456789"

\* The i-th character of s.
Chr(s, i) == SubSeq(s, i, i)

\* s without its first n characters.
Drop(s, n) == SubSeq(s, n + 1, Len(s))

\* Character c occurs in s.
Has(s, c) == \E i \in 1..Len(s) : Chr(s, i) = c

\* The characters of s.
CharsOf(s) == {Chr(s, i) : i \in 1..Len(s)}

UpperSet == CharsOf(UpperChars)

AlphaSet == UpperSet \cup CharsOf(LowerChars)

AlnumSet == AlphaSet \cup CharsOf(DigitChars)

IsAlnum(c) == c \in AlnumSet

\* The lower case letter of each upper case letter.
LowerOf == [c \in UpperSet |->
               Chr(LowerChars, CHOOSE i \in 1..Len(UpperChars) : Chr(UpperChars, i) = c)]

lower_char(c) == IF c \in UpperSet THEN LowerOf[c] ELSE c

\* unicode.lower()
RECURSIVE lower(_)
lower(s) == IF s = "" THEN "" ELSE lower_char(Chr(s, 1)) \o lower(Drop(s, 1))

\* unicode.startswith()
startswith(s, prefix) ==
    Len(prefix) <= Len(s) /\ SubSeq(s, 1, Len(prefix)) = prefix

\* The first position of character c in s, or 0.
Find(s, c) ==
    IF Has(s, c)
    THEN CHOOSE i \in 1..Len(s) :
             Chr(s, i) = c /\ \A j \in 1..(i - 1) : Chr(s, j) # c
    ELSE 0

\* linkcheck.url.url_is_absolute: the text bears a scheme, that is a letter,
\* then letters, digits, "+", "-" or ".", then a colon.
url_is_absolute(url) ==
    LET colon == Find(url, ":")
    IN  /\ colon >= 2
        /\ Chr(url, 1) \in AlphaSet
        /\ \A j \in 2..(colon - 1) :
               IsAlnum(Chr(url, j)) \/ Chr(url, j) \in {"+", "-", "."}

\* The scheme of an absolute url: the text before its first colon.
url_scheme(url) == SubSeq(url, 1, Find(url, ":") - 1)

\* linkcheck.url.url_unicode_split(url)[1]: the network location, which is
\* the text between the "//" after the scheme and the next "/", "?" or "#".
url_netloc(url) ==
    LET rest == Drop(url, Find(url, ":"))
    IN  IF ~startswith(rest, "//") THEN ""
        ELSE LET loc == Drop(rest, 2)
                 ends == {i \in 1..Len(loc) : Chr(loc, i) \in {"/", "?", "#"}}
             IN  IF ends = {} THEN loc
                 ELSE SubSeq(loc, 1, (CHOOSE i \in ends : \A k \in ends : i <= k) - 1)

\* linkcheck.url.idna_encode(domain)[0]: a host of ASCII characters encodes
\* to itself, and every text of this model is ASCII.
idna_encode(domain) == domain

\* re.escape(): a backslash before every character that is not alphanumeric.
RECURSIVE re_escape(_)
re_escape(s) ==
    IF s = "" THEN ""
    ELSE (IF IsAlnum(Chr(s, 1)) THEN Chr(s, 1) ELSE "\\" \o Chr(s, 1))
         \o re_escape(Drop(s, 1))

\* The regular expression pat matches at the start of text: "\c" is the
\* character c, "." is any character, any other character is itself.
RECURSIVE re_match(_, _)
re_match(pat, text) ==
    IF pat = "" THEN TRUE
    ELSE IF Chr(pat, 1) = "\\"
    THEN /\ Len(pat) >= 2
         /\ text # ""
         /\ Chr(text, 1) = Chr(pat, 2)
         /\ re_match(Drop(pat, 2), Drop(text, 1))
    ELSE /\ text # ""
         /\ Chr(pat, 1) = "." \/ Chr(text, 1) = Chr(pat, 1)
         /\ re_match(Drop(pat, 1), Drop(text, 1))

\* pattern.search(text): a match at any position, at the start alone when
\* the expression begins with "^".
re_search(pat, text) ==
    IF startswith(pat, "^") THEN re_match(Drop(pat, 1), text)
    ELSE \E i \in 0..Len(text) : re_match(pat, Drop(text, i))

\* linkcheck.get_link_pat(arg): the compiled expression with its flags.
get_link_pat(arg) == [pattern |-> arg, negate |-> FALSE, strict |-> FALSE]

----------------------------------------------------------------------------
\* The url factory.

\* The alternatives of ignored_schemes ("z39\.50r" is the text "z39.50r").
ignored_schemes ==
    {"acap", "afs", "cid", "data", "dav", "fax", "imap", "ldap",
     "mailserver", "mid", "mms", "modem", "nfs", "opaquelocktoken", "pop",
     "prospero", "rsync", "rtsp", "rtspu", "service", "shttp", "sip", "tel",
     "tip", "tn3270", "vemmi", "wais", "z39.50r", "z39.50s", "chrome",
     "find", "clsid", "javascript", "isbn"}

\* ignored_schemes_re.search(url): "^(acap|...|isbn):"
ignored_schemes_re_search(url) ==
    \E scheme \in ignored_schemes : startswith(url, scheme \o ":")

\* Mutation of absolute_url: the parent url is tried before the <base> url.
absolute_url_parent_first(base_url, base_ref, parent_url) ==
    IF base_url # "" /\ url_is_absolute(base_url) THEN lower(base_url)
    ELSE IF parent_url # "" /\ url_is_absolute(parent_url) THEN lower(parent_url)
    ELSE IF base_ref # "" /\ url_is_absolute(base_ref) THEN lower(base_ref)
    ELSE ""

absolute_url(base_url, base_ref, parent_url) ==
    IF base_url # "" /\ url_is_absolute(base_url) THEN lower(base_url)
    ELSE IF base_ref # "" /\ url_is_absolute(base_ref) THEN lower(base_ref)
    ELSE IF parent_url # "" /\ url_is_absolute(parent_url) THEN lower(parent_url)
    ELSE ""

\* Mutation of url_class: the command line flag is tested before the
\* ignored schemes.
url_class_cmdline_first(url, cmdline) ==
    IF startswith(url, "http:") THEN "HttpUrl"
    ELSE IF startswith(url, "ftp:") THEN "FtpUrl"
    ELSE IF startswith(url, "file:") THEN "FileUrl"
    ELSE IF startswith(url, "telnet:") THEN "TelnetUrl"
    ELSE IF startswith(url, "mailto:") THEN "MailtoUrl"
    ELSE IF startswith(url, "gopher:") THEN "GopherUrl"
    ELSE IF startswith(url, "https:") THEN "HttpsUrl"
    ELSE IF \/ startswith(url, "nntp:")
            \/ startswith(url, "news:")
            \/ startswith(url, "snews:") THEN "NntpUrl"
    ELSE IF cmdline THEN "FileUrl"
    ELSE IF ignored_schemes_re_search(url) THEN "IgnoredUrl"
    ELSE "ErrorUrl"

\* The "test scheme" chain of get_url_from.
url_class(url, cmdline) ==
    IF startswith(url, "http:") THEN "HttpUrl"
    ELSE IF startswith(url, "ftp:") THEN "FtpUrl"
    ELSE IF startswith(url, "file:") THEN "FileUrl"
    ELSE IF startswith(url, "telnet:") THEN "TelnetUrl"
    ELSE IF startswith(url, "mailto:") THEN "MailtoUrl"
    ELSE IF startswith(url, "gopher:") THEN "GopherUrl"
    ELSE IF startswith(url, "https:") THEN "HttpsUrl"
    ELSE IF \/ startswith(url, "nntp:")
            \/ startswith(url, "news:")
            \/ startswith(url, "snews:") THEN "NntpUrl"
    ELSE IF ignored_schemes_re_search(url) THEN "IgnoredUrl"
    ELSE IF cmdline THEN "FileUrl"
    ELSE "ErrorUrl"

\* config['internlinks'] after set_intern_url(url, klass, config).
set_intern_url(url, klass, links) ==
    IF klass = "FileUrl"
    THEN Append(links, get_link_pat("^file:"))
    ELSE IF klass \in {"HttpUrl", "HttpsUrl", "FtpUrl"}
    THEN LET domain == idna_encode(url_netloc(url))
         IN  IF domain # ""
             THEN Append(links, get_link_pat("://" \o re_escape(domain)))
             ELSE links
    ELSE links

\* Mutation of no_filter_given: the pattern lists are not looked at.
no_filter_test_dropped(intern, extern) == TRUE

\* not (consumer.config['internlinks'] or consumer.config['externlinks'])
no_filter_given(intern, extern) == ~(intern # <<>> \/ extern # <<>>)

\* get_url_from(base_url, recursion_level, consumer, parent_url, base_ref,
\* cmdline=cmdline); the texts arrive as unicode.
GetUrlFrom(base_url, base_ref, parent_url, cmdline) ==
    /\ ncalls < MaxCalls
    /\ \E url \in {absolute_url(base_url, base_ref, parent_url)} :
       \E klass \in {url_class(url, cmdline)} :
           /\ internlinks' =
                  IF cmdline /\ no_filter_given(internlinks, externlinks)
                  THEN set_intern_url(url, klass, internlinks)
                  ELSE internlinks
           /\ last' = [base_url |-> base_url, base_ref |-> base_ref,
                       parent_url |-> parent_url, cmdline |-> cmdline,
                       url |-> url, klass |-> klass]
           /\ seeds' = IF cmdline THEN seeds \cup {[url |-> url, klass |-> klass]}
                       ELSE seeds
    /\ ncalls' = ncalls + 1
    /\ UNCHANGED <<externlinks, internlinks0, externlinks0>>
    /\ UNCHANGED schedVars

\* Texts a caller hands over: with and without scheme, in either case, one
\* for each url class, and some that share a domain or differ in one
\* character of it.
Texts ==
    {"", "somefile.txt", "foo:bar", "HTTP://A.c/P", "http://a.c/s",
     "https://a.c/x", "http://b.o/p", "http://b.o/://a.c", "http://axc/q",
     "http:/p", "ftp://a.c/f", "file:///t", "telnet:h", "mailto:m",
     "gopher:g", "nntp:n", "news:n", "snews:n", "tel:12", "Shttp://a.c/"}

\* Texts of a <base> tag or of a parent document.
ContextTexts == {"", "index.html", "HTTP://B.o/Q", "tel:12", "file:///t"}

\* Texts given on the command line.
SeedTexts ==
    {"somefile.txt", "HTTP://A.c/P", "http://a.c/s", "https://a.c/x",
     "http://b.o/p", "http:/p", "ftp://a.c/f", "file:///t", "tel:12"}

\* Texts found in a checked document.
LinkTexts ==
    {"", "page.html", "https://a.c/x", "http://b.o/://a.c", "http://axc/q",
     "mailto:m"}

\* The pattern lists an operator may have configured.
InternConfigs == {<<>>, <<get_link_pat("^ftp:")>>}

ExternConfigs == {<<>>, <<get_link_pat("^mailto:")>>}

NoCall == [base_url |-> "", base_ref |-> "", parent_url |-> "",
           cmdline |-> FALSE, url |-> "", klass |-> "none"]

\* No check loop runs while urls are built.
SchedIdle ==
    /\ pc = "start"
    /\ calls = <<>>
    /\ now = 0
    /\ start_time = 0
    /\ status_time = 0
    /\ curtime = 0
    /\ status = FALSE
    /\ queue = 0
    /\ queue0 = 0
    /\ exc = "none"
    /\ thrown = NoThrow

\* A run of the factory over a configuration: urls of the command line and
\* urls found in documents, in any order.
ScopeInit ==
    /\ SchedIdle
    /\ internlinks \in InternConfigs
    /\ externlinks \in ExternConfigs
    /\ internlinks0 = internlinks
    /\ externlinks0 = externlinks
    /\ last = NoCall
    /\ seeds = {}
    /\ ncalls = 0

CommandLineUrl ==
    \E base_url \in SeedTexts :
        GetUrlFrom(base_url, "", "", TRUE)

DiscoveredUrl ==
    \E base_url \in LinkTexts, base_ref \in {"", "HTTP://B.o/Q"},
       parent_url \in {"http://a.c/s", "file:///t"} :
        GetUrlFrom(base_url, base_ref, parent_url, FALSE)

ScopeNext ==
    \/ CommandLineUrl
    \/ DiscoveredUrl

ScopeSpec == ScopeInit /\ [][ScopeNext]_vars

\* One call of get_url_from on arguments drawn from the texts.
ClassifyInit ==
    /\ SchedIdle
    /\ internlinks = <<>>
    /\ externlinks = <<>>
    /\ internlinks0 = <<>>
    /\ externlinks0 = <<>>
    /\ \E base_url \in Texts, base_ref \in ContextTexts,
          parent_url \in ContextTexts, cmdline \in BOOLEAN :
           last = [base_url |-> base_url, base_ref |-> base_ref,
                   parent_url |-> parent_url, cmdline |-> cmdline,
                   url |-> "", klass |-> "none"]
    /\ seeds = {}
    /\ ncalls = 0

Classify ==
    /\ ncalls = 0
    /\ GetUrlFrom(last.base_url, last.base_ref, last.parent_url, last.cmdline)

ClassifyNext == Classify

ClassifySpec == ClassifyInit /\ [][ClassifyNext]_vars

----------------------------------------------------------------------------
\* Properties of the check loop.

\* The names of the calls made so far, in order.
Ops == [i \in DOMAIN calls |-> calls[i].op]

\* How often the consumer operation op has been called.
Count(op) == Cardinality({i \in DOMAIN calls : calls[i].op = op})

IsLoopOp(op) == op \in {"finished", "check_url"}

IsEndOp(op) == op \in {"abort", "logger_end_output"}

\* The positions of _check_urls inside the while loop.
LoopPlaces == {"loop", "check", "config", "print"}

\* check_urls has returned to its caller.
Returned == pc = "done"

\* C1: every run of check_urls that returns, after finished() gave true or
\* after a KeyboardInterrupt raised inside the loop, has called
\* logger_end_output exactly once.
C1_FinalizeExactlyOnce ==
    (/\ Returned
     /\ \/ thrown = NoThrow
        \/ thrown.kind = KeyboardInterrupt /\ thrown.at \in LoopPlaces)
    => Count("logger_end_output") = 1

\* The cancellation signal was raised during finished(), check_url() or
\* print_status().
CancelledMidRun ==
    /\ thrown.kind = KeyboardInterrupt
    /\ thrown.by \in {"finished", "check_url", "print_status"}

\* C2: after a cancellation raised during finished(), check_url() or
\* print_status(), check_urls calls abort once and then logger_end_output
\* once, in that order, and makes no check_url call after the signal.
C2_AbortThenFinalize ==
    (Returned /\ CancelledMidRun)
    => /\ SelectSeq(Ops, IsEndOp) = <<"abort", "logger_end_output">>
       /\ \A i \in DOMAIN calls :
              i > thrown.idx => calls[i].op # "check_url"

\* C3: an exception other than KeyboardInterrupt raised by finished() or
\* check_url() leaves check_urls unchanged, with no further consumer call
\* and no abort; abort is called for KeyboardInterrupt alone.
C3_OnlyCancellationCaught ==
    /\ (/\ thrown.by \in {"finished", "check_url"}
        /\ thrown.kind # KeyboardInterrupt)
       => /\ pc = "raised"
          /\ exc = thrown.kind
          /\ Len(calls) = thrown.idx
          /\ Count("abort") = 0
    /\ (Count("abort") > 0 \/ pc = "abort")
       => thrown.kind = KeyboardInterrupt

\* A member of ExcList that check_url let escape has left check_urls.
C3_Witness ==
    /\ pc = "raised"
    /\ thrown.by = "check_url"
    /\ thrown.kind = "IOError"
    /\ exc = "IOError"

\* The time of the status output before call i, or the start of the run.
PrevEmit(i) ==
    LET before == {j \in 1..(i - 1) : calls[j].op = "print_status"}
    IN  IF before = {} THEN start_time
        ELSE calls[CHOOSE j \in before : \A k \in before : k <= j].at

\* C4: print_status is called only with status enabled and at least
\* StatusInterval seconds after the previous print_status (or the start),
\* with the current time and the start time; a run that all in all takes
\* less than StatusInterval seconds has at most one print_status call, and
\* with status disabled there is none.
C4_StatusCadence ==
    /\ \A i \in DOMAIN calls :
           calls[i].op = "print_status"
           => /\ status
              /\ calls[i].args = <<calls[i].at, start_time>>
              /\ calls[i].at - PrevEmit(i) >= StatusInterval
    /\ (now - start_time < StatusInterval) => Count("print_status") <= 1
    /\ ~status => Count("print_status") = 0

\* Two status outputs in one run, the second one after a further check.
C4_Witness ==
    /\ Count("print_status") = 2
    /\ Count("check_url") >= 2
    /\ status

\* The finished/check_url calls of a run without status output over a
\* consumer with q urls whose calls all return.
RECURSIVE Canon(_)
Canon(q) ==
    IF q = 0 THEN <<"finished">>
    ELSE <<"finished", "check_url">> \o Canon(q - 1)

\* C10: for the same consumer (the same queue, finished() and check_url()
\* returning, no cancellation) the finished/check_url calls of a run are
\* those of the run without status output, whatever print_status does.
C10_StatusNeverGates ==
    (/\ pc \in {"done", "raised"}
     /\ thrown.kind # KeyboardInterrupt
     /\ thrown.by \notin {"finished", "check_url"})
    => SelectSeq(Ops, IsLoopOp) = Canon(queue0)

----------------------------------------------------------------------------
\* Properties of the url factory.

\* The reference with absolute text `text` is intern: one of the intern
\* patterns is found in it.
IsIntern(text) ==
    \E i \in DOMAIN internlinks : re_search(internlinks[i].pattern, text)

\* The absolute texts of the references of a run.
AbsoluteTexts == {absolute_url(t, "", "") : t \in Texts} \ {""}

NetworkClasses == {"HttpUrl", "HttpsUrl", "FtpUrl"}

\* The one call made so far was a command line url of a network class with
\* a domain, in a run without configured patterns, and so its rule is the
\* only one.
OnlySeedRule ==
    /\ ncalls = 1
    /\ last.cmdline
    /\ internlinks0 = <<>> /\ externlinks0 = <<>>
    /\ last.klass \in NetworkClasses
    /\ url_netloc(last.url) # ""

IsScopeSeed(seed) ==
    /\ seed.url # ""
    /\ \/ seed.klass = "FileUrl"
       \/ seed.klass \in NetworkClasses /\ url_netloc(seed.url) # ""

\* C6: in a run without configured patterns every command line url of the
\* file, http, https or ftp class built so far is intern.
C6_EverySeedIsIntern ==
    (internlinks0 = <<>> /\ externlinks0 = <<>>)
    => \A seed \in seeds : IsScopeSeed(seed) => IsIntern(seed.url)

\* The primary scheme prefixes and their url classes.
PrimarySchemes ==
    {<<"http:", "HttpUrl">>, <<"ftp:", "FtpUrl">>, <<"file:", "FileUrl">>,
     <<"telnet:", "TelnetUrl">>, <<"mailto:", "MailtoUrl">>,
     <<"gopher:", "GopherUrl">>, <<"https:", "HttpsUrl">>,
     <<"nntp:", "NntpUrl">>, <<"news:", "NntpUrl">>, <<"snews:", "NntpUrl">>}

\* get_url_from has been called.
Called == ncalls > 0

\* C7: the class is that of the primary scheme prefix of the absolute url;
\* without one it is IgnoredUrl for an ignored scheme whatever the command
\* line flag, else FileUrl for a command line url, else ErrorUrl; a text
\* without scheme and without absolute base or parent is FileUrl on the
\* command line and ErrorUrl otherwise.
C7_DispatchOrder ==
    Called =>
    LET primary == {p \in PrimarySchemes : startswith(last.url, p[1])}
        ignored == \E scheme \in ignored_schemes :
                       startswith(last.url, scheme \o ":")
    IN  /\ \A p \in primary : last.klass = p[2]
        /\ (primary = {} /\ ignored) => last.klass = "IgnoredUrl"
        /\ (primary = {} /\ ~ignored /\ last.cmdline)
           => last.klass = "FileUrl"
        /\ (primary = {} /\ ~ignored /\ ~last.cmdline)
           => last.klass = "ErrorUrl"
        /\ (/\ last.base_url = "somefile.txt"
            /\ ~url_is_absolute(last.base_ref)
            /\ ~url_is_absolute(last.parent_url))
           => last.klass = (IF last.cmdline THEN "FileUrl" ELSE "ErrorUrl")

\* A command line url of an ignored scheme has been built.
C7_Witness ==
    /\ Called
    /\ last.cmdline
    /\ last.base_url = "tel:12"
    /\ last.klass = "IgnoredUrl"

\* The candidates of absolute_url in the order of their precedence.
Candidates == <<last.base_url, last.base_ref, last.parent_url>>

IsAbsoluteCandidate(i) == Candidates[i] # "" /\ url_is_absolute(Candidates[i])

\* C8: the absolute url is the first absolute candidate (link tag, <base>,
\* parent) with every upper case letter replaced by its lower case letter,
\* and the empty text when no candidate is absolute.
C8_FirstAbsoluteCandidateLowered ==
    Called =>
    /\ \A i \in 1..3 :
           (IsAbsoluteCandidate(i) /\ \A j \in 1..(i - 1) : ~IsAbsoluteCandidate(j))
           => /\ Len(last.url) = Len(Candidates[i])
              /\ \A k \in 1..Len(last.url) :
                     /\ Chr(last.url, k) \notin UpperSet
                     /\ \/ Chr(last.url, k) = Chr(Candidates[i], k)
                        \/ /\ Chr(Candidates[i], k) \in UpperSet
                           /\ Chr(last.url, k) = LowerOf[Chr(Candidates[i], k)]
    /\ (\A i \in 1..3 : ~IsAbsoluteCandidate(i)) => last.url = ""

\* The <base> url was used, in lower case, although the parent is absolute
\* too and the link text is not.
C8_Witness ==
    /\ Called
    /\ last.base_url = "somefile.txt"
    /\ last.base_ref = "HTTP://B.o/Q"
    /\ last.parent_url = "file:///t"
    /\ last.url = "http://b.o/q"

\* C9: a get_url_from call for a found url, or while a pattern list is not
\* empty, leaves both lists as they are; no call removes or replaces a
\* pattern or changes externlinks; at most one pattern is ever appended.
C9_Step ==
    /\ externlinks' = externlinks
    /\ Len(internlinks') >= Len(internlinks)
    /\ SubSeq(internlinks', 1, Len(internlinks)) = internlinks
    /\ (internlinks # <<>> \/ externlinks # <<>>) => internlinks' = internlinks
    /\ ~last'.cmdline => internlinks' = internlinks
    /\ Len(internlinks') <= Len(internlinks0') + 1

\* C9: every step of a run keeps the pattern lists as C9_Step says.
C9_ScopeRulesReadOnly == [][C9_Step]_vars

\* A pattern was appended for a command line url and two more calls have
\* been made since.
C9_Witness ==
    /\ ncalls = 3
    /\ internlinks0 = <<>> /\ externlinks0 = <<>>
    /\ Len(internlinks) = 1
    /\ Cardinality(seeds) = 3

====
